---- MODULE Spec2Model ----
(***************************************************************************)
(* State-machine model of the FastRTC backend's stream registry            *)
(* (FastRTCManager), per-stream audio buffering (FastRTCStream) and the    *)
(* handlers of main.py that drive them.                                    *)
(*                                                                         *)
(* Scheduling.  All handlers are coroutines of one asyncio event loop.  A  *)
(* coroutine gives up control only at an await that really suspends        *)
(* (websocket receive/send/accept).  create_stream, get_stream,            *)
(* remove_stream, process_audio, process_audio_data, _process_buffer,      *)
(* start_streaming, stop_streaming and cleanup_inactive_streams contain no *)
(* such await, so each call runs to completion before any other handler    *)
(* runs.  The model keeps that: the variable task holds the position of    *)
(* the one call that is executing, and while task.pc # "idle" only that    *)
(* call's next statement can step.  The statements of process_audio_data / *)
(* _process_buffer are separate steps so that the processing flag and the  *)
(* local combined_audio are visible while a flush executes.                *)
(*                                                                         *)
(* The handlers of the registry and of the streams are written without the *)
(* websocket they were called through: they run for a client whose         *)
(* connection is registered, and they leave the ConnectionManager's maps   *)
(* as they are.  The values of connection_metadata (connected_at,          *)
(* last_activity, audio_streaming) are read only by GET /stats; the model  *)
(* keeps the keys.  The websocket endpoint and what it does for a client   *)
(* whose connection is not registered any more is in the section           *)
(* "Websocket endpoint".                                                   *)
(*                                                                         *)
(* Time is counted in whole minutes (datetime.utcnow() truncated).         *)
(* FastRTCStream.created_at is written once and read only by get_status's  *)
(* formatting; it is left out of the stream record.                        *)
(***************************************************************************)
EXTENDS Integers, Sequences, FiniteSets, TLC

VARIABLES
    streams,      \* FastRTCManager.streams: webrtc_id -> FastRTCStream (DOMAIN = keys)
    order,        \* insertion order of the keys of FastRTCManager.streams (dict order)
    now,          \* datetime.utcnow(), in minutes
    task,         \* the call that is executing: its position and locals
    result,       \* what the last call returned, raised or logged, and the stream
                  \* objects it deleted from the registry, as they were when deleted
    active_connections,   \* ConnectionManager.active_connections: client_id -> websocket
    connection_metadata,  \* keys of ConnectionManager.connection_metadata
    sockets       \* per websocket: where its websocket_audio_endpoint call stands

vars == <<streams, order, now, task, result,
          active_connections, connection_metadata, sockets>>

\* the state of the ConnectionManager and of the websocket endpoints
conn == <<active_connections, connection_metadata, sockets>>

------------------------------------------------------------------------------
(* Program constants *)

max_streams == 100

flushThreshold == 10

max_inactive_minutes == 30

(* Bounds of the model *)

\* free slots of the pre-populated initial registry
FreeSlots == 1

\* the clock advances once, by TickMinutes
TickMinutes == 31

\* Spec: no chunk is sent while a buffer already holds MaxQueued chunks
MaxQueued == 2

\* SpecBuf, SpecFail: no chunk is sent while a buffer already holds MaxBuf chunks
MaxBuf == 11

------------------------------------------------------------------------------
(* Inputs *)

\* ids a caller can name: two well-formed ids and the two ids create_stream rejects
ValidIds == {"a", "b"}

InvalidIds == {"", "None"}

IdInputs == ValidIds \cup InvalidIds

\* ids of the streams the initial registry was populated with
Filler(i) == "f" \o ToString(i)

\* a bytes object, and an object that is not bytes-like
Bytes(data) == [type |-> "bytes", data |-> data]

NotBytes == [type |-> "str", data |-> <<>>]

NoChunk == [type |-> "none", data |-> <<>>]

\* the chunks clients send in Spec
Chunks == {Bytes(<<1>>)}

\* SpecBuf: two chunks that differ in content and in length
TwoChunks == {Bytes(<<1>>), Bytes(<<2, 3>>)}

\* SpecFail: a chunk and an object b''.join cannot join
BadChunks == {Bytes(<<1>>), NotBytes}

\* the websockets that connect, and the client ids of their URLs
Sockets == {"w1", "w2"}

ClientIds == {"c1", "c2"}

\* (modality, mode) pairs of a request; BadKinds are rejected by webrtc_offer
Kinds == { <<"audio", "send">>, <<"video", "receive">> }

BadKinds == { <<"text", "send">>, <<"audio", "push">> }

------------------------------------------------------------------------------
(* FastRTCStream *)

\* a stream constructed with the defaults in place of the arguments
NewStreamDefaults(webrtc_id, modality, mode, t) ==
    [ webrtc_id     |-> webrtc_id,
      modality      |-> "audio",
      mode          |-> "send",
      is_active     |-> FALSE,
      last_activity |-> t,
      audio_buffer  |-> <<>>,
      processing    |-> FALSE ]

\* FastRTCStream.__init__
NewStream(webrtc_id, modality, mode, t) ==
    [ webrtc_id     |-> webrtc_id,
      modality      |-> modality,
      mode          |-> mode,
      is_active     |-> FALSE,
      last_activity |-> t,
      audio_buffer  |-> <<>>,
      processing    |-> FALSE ]

\* a start_streaming that also empties the buffer
start_streaming_clears(s, t) ==
    [s EXCEPT !.is_active = TRUE, !.last_activity = t, !.audio_buffer = <<>>]

\* FastRTCStream.start_streaming
start_streaming(s, t) == [s EXCEPT !.is_active = TRUE, !.last_activity = t]

\* a stop_streaming that also throws the buffered chunks away
stop_streaming_drops(s) == [s EXCEPT !.is_active = FALSE, !.audio_buffer = <<>>]

\* FastRTCStream.stop_streaming
stop_streaming(s) == [s EXCEPT !.is_active = FALSE]

\* b''.join(chunks): the bytes of the chunks one after the other, first chunk first
RECURSIVE Join(_)
Join(chunks) ==
    IF chunks = <<>> THEN <<>> ELSE Head(chunks).data \o Join(Tail(chunks))

\* b''.join raises TypeError when an item is not bytes-like
JoinRaises(chunks) == \E i \in 1..Len(chunks) : chunks[i].type # "bytes"

------------------------------------------------------------------------------
(* FastRTCManager *)

Idle == [pc |-> "idle", id |-> "", chunk |-> NoChunk, todo |-> <<>>, payload |-> <<>>]

\* Python values a message carries or a handler returns: None, a str, and a
\* dict key that is not there
None == [py |-> "NoneType", v |-> ""]

Str(s) == [py |-> "str", v |-> s]

Absent == [py |-> "absent", v |-> ""]

\* dict.get(key, default)
Get(message, key, default) ==
    IF key \in DOMAIN message THEN message[key] ELSE default

\* arg and value: the dict a call was given and the object it returned or the
\* exception it raised (None for the calls modelled without them)
Result(op, id, outcome, gone) ==
    [op |-> op, id |-> id, outcome |-> outcome, gone |-> gone,
     arg |-> None, value |-> None]

\* the three ValueErrors of create_stream
InvalidId == "Invalid webrtc_id: cannot be None or empty"

CapacityExceeded == "Maximum number of streams reached"

\* f"Stream {webrtc_id} already exists"
DuplicateId(webrtc_id) == "Stream " \o webrtc_id \o " already exists"

\* create_stream without its capacity check
CreateOutcomeNoCapacity(webrtc_id) ==
    IF webrtc_id = "" \/ webrtc_id = "None" THEN InvalidId
    ELSE IF webrtc_id \in DOMAIN streams THEN DuplicateId(webrtc_id)
    ELSE "ok"

\* create_stream with > where the code has >=
CreateOutcomeOffByOne(webrtc_id) ==
    IF webrtc_id = "" \/ webrtc_id = "None" THEN InvalidId
    ELSE IF Len(order) > max_streams THEN CapacityExceeded
    ELSE IF webrtc_id \in DOMAIN streams THEN DuplicateId(webrtc_id)
    ELSE "ok"

\* the checks of create_stream, in the order the code makes them
CreateOutcome(webrtc_id) ==
    IF webrtc_id = "" \/ webrtc_id = "None" THEN InvalidId
    ELSE IF Len(order) >= max_streams THEN CapacityExceeded
    ELSE IF webrtc_id \in DOMAIN streams THEN DuplicateId(webrtc_id)
    ELSE "ok"

\* self.streams[webrtc_id] = stream
Insert(reg, s) ==
    [x \in DOMAIN reg \cup {s.webrtc_id} |-> IF x = s.webrtc_id THEN s ELSE reg[x]]

\* del self.streams[webrtc_id]
Delete(reg, webrtc_id) == [x \in DOMAIN reg \ {webrtc_id} |-> reg[x]]

DeleteKey(keys, webrtc_id) == SelectSeq(keys, LAMBDA k : k # webrtc_id)

\* FastRTCManager.create_stream
create_stream(webrtc_id, modality, mode) ==
    /\ task.pc = "idle"
    /\ LET outcome == CreateOutcome(webrtc_id) IN
       /\ result' = Result("create_stream", webrtc_id, outcome, {})
       /\ IF outcome = "ok"
          THEN /\ streams' = Insert(streams, NewStream(webrtc_id, modality, mode, now))
               /\ order' = Append(order, webrtc_id)
          ELSE UNCHANGED <<streams, order>>
    /\ UNCHANGED <<now, task, conn>>

\* remove_stream without its stop_streaming() call
RemovedNotStopped(s) == s

\* the stream object remove_stream lets go of: stop_streaming() ran on it, then del
Removed(s) == stop_streaming(s)

\* what is kept of a deleted object: s as remove_stream found it, r as it let go of it
Corpse(s, r) ==
    [webrtc_id |-> r.webrtc_id, was_active |-> s.is_active, is_active |-> r.is_active]

\* FastRTCManager.remove_stream on a registry m = [streams, order, gone]; gone
\* holds the objects the running call has deleted
RemoveFrom(m, webrtc_id) ==
    IF webrtc_id \in DOMAIN m.streams
    THEN [ streams |-> Delete(m.streams, webrtc_id),
           order   |-> DeleteKey(m.order, webrtc_id),
           gone    |-> m.gone \cup {Corpse(m.streams[webrtc_id], Removed(m.streams[webrtc_id]))} ]
    ELSE m

Manager == [streams |-> streams, order |-> order, gone |-> {}]

\* what remove_stream tells its caller: it returns None whether or not the id was there
RemoveOutcome(webrtc_id) == "returned"

\* DELETE /fastrtc/streams/{webrtc_id}: 404 only if remove_stream raises
RemoveEndpointOutcome(webrtc_id) ==
    IF RemoveOutcome(webrtc_id) = "returned" THEN "success" ELSE "404 not found"

remove_fastrtc_stream(webrtc_id) ==
    /\ task.pc = "idle"
    /\ LET m == RemoveFrom(Manager, webrtc_id) IN
       /\ streams' = m.streams
       /\ order' = m.order
       /\ result' = Result("remove_fastrtc_stream", webrtc_id,
                           RemoveEndpointOutcome(webrtc_id), m.gone)
    /\ UNCHANGED <<now, task, conn>>

------------------------------------------------------------------------------
(* Idle sweep *)

Minute(t) == t % 60

\* datetime.replace(minute=...) raises ValueError unless 0 <= minute <= 59
ReplaceRaises(t, minutes) == Minute(t) - minutes < 0 \/ Minute(t) - minutes > 59

\* cutoff_time.replace(minute=cutoff_time.minute - max_inactive_minutes)
CutoffTime(t, minutes) == t - Minute(t) + (Minute(t) - minutes)

StreamsToRemove(cutoff) ==
    SelectSeq(order, LAMBDA k : streams[k].last_activity < cutoff)

\* for webrtc_id in streams_to_remove: await self.remove_stream(webrtc_id)
\* (the ids are distinct keys of the registry, so every call finds its stream;
\* the calls are folded into one update)
Range(seq) == {seq[i] : i \in 1..Len(seq)}

RemoveAll(m, ids) ==
    [ streams |-> [x \in DOMAIN m.streams \ Range(ids) |-> m.streams[x]],
      order   |-> SelectSeq(m.order, LAMBDA k : k \notin Range(ids)),
      gone    |-> m.gone \cup {Corpse(m.streams[k], Removed(m.streams[k])) : k \in Range(ids)} ]

\* FastRTCManager.cleanup_inactive_streams
cleanup_inactive_streams(minutes) ==
    /\ task.pc = "idle"
    /\ IF ReplaceRaises(now, minutes)
       THEN /\ result' = Result("cleanup_inactive_streams", "", "ValueError", {})
            /\ UNCHANGED <<streams, order>>
       ELSE LET ids == StreamsToRemove(CutoffTime(now, minutes))
                m   == RemoveAll(Manager, ids)
            IN  /\ streams' = m.streams
                /\ order' = m.order
                /\ result' = Result("cleanup_inactive_streams", "", "returned", m.gone)
    /\ UNCHANGED <<now, task, conn>>

\* the clock
Tick ==
    /\ task.pc = "idle"
    /\ now < TickMinutes
    /\ now' = now + TickMinutes
    /\ UNCHANGED <<streams, order, task, result, conn>>

------------------------------------------------------------------------------
(* Control messages (main.py handle_control_message) *)

\* if webrtc_id: stream = get_stream(webrtc_id); if stream: ...
Lookup(webrtc_id) == webrtc_id # "" /\ webrtc_id \in DOMAIN streams

\* a start handler that registers a started stream under an id the lookup
\* did not find
handle_start_streaming_revives(webrtc_id) ==
    /\ task.pc = "idle"
    /\ IF Lookup(webrtc_id)
       THEN /\ streams' = [streams EXCEPT ![webrtc_id] = start_streaming(@, now)]
            /\ order' = order
       ELSE /\ streams' = Insert(streams,
                             start_streaming(NewStream(webrtc_id, "audio", "send", now), now))
            /\ order' = Append(order, webrtc_id)
    /\ result' = Result("start_streaming", webrtc_id, "streaming_started", {})
    /\ UNCHANGED <<now, task, conn>>

\* {"type": "start_streaming", "webrtc_id": webrtc_id}
handle_start_streaming(webrtc_id) ==
    /\ task.pc = "idle"
    /\ IF Lookup(webrtc_id)
       THEN streams' = [streams EXCEPT ![webrtc_id] = start_streaming(@, now)]
       ELSE UNCHANGED streams
    /\ result' = Result("start_streaming", webrtc_id, "streaming_started", {})
    /\ UNCHANGED <<order, now, task, conn>>

\* {"type": "stop_streaming", "webrtc_id": webrtc_id}
handle_stop_streaming(webrtc_id) ==
    /\ task.pc = "idle"
    /\ IF Lookup(webrtc_id)
       THEN streams' = [streams EXCEPT ![webrtc_id] = stop_streaming(@)]
       ELSE UNCHANGED streams
    /\ result' = Result("stop_streaming", webrtc_id, "streaming_stopped", {})
    /\ UNCHANGED <<order, now, task, conn>>

------------------------------------------------------------------------------
(* Audio: process_audio, process_audio_data, _process_buffer *)

\* process_audio_data without its is_active check
AcceptsAlways(s) == TRUE

\* process_audio_data gets past "if not self.is_active: return"
Accepts(s) == s.is_active

\* self.last_activity = utcnow(); self.audio_buffer.append(audio_data)
Buffered(s, chunk, t) ==
    [s EXCEPT !.last_activity = t, !.audio_buffer = Append(@, chunk)]

\* len(self.audio_buffer) >= 10 and not self.processing
FlushDue(s) == Len(s.audio_buffer) >= flushThreshold /\ ~s.processing

\* _process_buffer without self.processing = True
BeginFlushNoFlag(s) == s

\* first statement of _process_buffer
BeginFlush(s) == [s EXCEPT !.processing = TRUE]

\* where the caller goes on after one process_audio call: the loop of
\* handle_audio_data if streams are left in its snapshot, else it is done
After(chunk, rest) ==
    IF rest = <<>> THEN Idle
    ELSE [pc |-> "loop", id |-> "", chunk |-> chunk, todo |-> rest, payload |-> <<>>]

\* FastRTCManager.process_audio(webrtc_id, chunk), up to the first statement of
\* _process_buffer; rest is what the caller's loop still has to deliver to
Deliver(webrtc_id, chunk, rest) ==
    /\ UNCHANGED <<order, now, conn>>
    /\ IF webrtc_id \notin DOMAIN streams
       THEN /\ result' = Result("process_audio", webrtc_id, "warning: stream not found", {})
            /\ task' = After(chunk, rest)
            /\ UNCHANGED streams
       ELSE /\ result' = Result("process_audio", webrtc_id, "returned", {})
            /\ IF ~Accepts(streams[webrtc_id])
               THEN /\ task' = After(chunk, rest)
                    /\ UNCHANGED streams
               ELSE LET s == Buffered(streams[webrtc_id], chunk, now) IN
                    IF FlushDue(s)
                    THEN /\ streams' = [streams EXCEPT ![webrtc_id] = BeginFlush(s)]
                         /\ task' = [pc |-> "flush", id |-> webrtc_id, chunk |-> chunk,
                                     todo |-> rest, payload |-> <<>>]
                    ELSE /\ streams' = [streams EXCEPT ![webrtc_id] = s]
                         /\ task' = After(chunk, rest)

\* a call of FastRTCManager.process_audio
process_audio(webrtc_id, chunk) ==
    /\ task.pc = "idle"
    /\ Deliver(webrtc_id, chunk, <<>>)

\* fastrtc_stats["streams"] filtered by is_active, in dict order
ActiveSnapshot == SelectSeq(order, LAMBDA k : streams[k].is_active)

\* main.py handle_audio_data: the chunk goes to every stream active in the snapshot
handle_audio_data(chunk) ==
    /\ task.pc = "idle"
    /\ LET todo == ActiveSnapshot IN
       IF todo = <<>>
       THEN /\ result' = Result("handle_audio_data", "", "returned", {})
            /\ UNCHANGED <<streams, order, now, task, conn>>
       ELSE Deliver(Head(todo), chunk, Tail(todo))

\* next iteration of the loop of handle_audio_data
audio_loop ==
    /\ task.pc = "loop"
    /\ Deliver(Head(task.todo), task.chunk, Tail(task.todo))

\* what the try block of _process_buffer leaves of the stream: the join and the
\* clear are both inside the try, so a join that raises skips the clear
AfterTry(s) ==
    IF JoinRaises(s.audio_buffer) THEN s ELSE [s EXCEPT !.audio_buffer = <<>>]

\* a join that misses the first chunk of the buffer
CombinedFromSecond(s) ==
    IF JoinRaises(s.audio_buffer) THEN <<>> ELSE Join(Tail(s.audio_buffer))

\* combined_audio after the try block (unbound, here empty, when the join raised)
Combined(s) ==
    IF JoinRaises(s.audio_buffer) THEN <<>> ELSE Join(s.audio_buffer)

\* the try/except of _process_buffer
flush_body ==
    /\ task.pc = "flush"
    /\ LET s == streams[task.id] IN
       /\ streams' = [streams EXCEPT ![task.id] = AfterTry(s)]
       /\ task' = [task EXCEPT !.pc = "finally", !.payload = Combined(s)]
       /\ result' = Result("_process_buffer", task.id,
                           IF JoinRaises(s.audio_buffer)
                           THEN "error: Error processing audio" ELSE "processed", {})
    /\ UNCHANGED <<order, now, conn>>

\* the finally clause of _process_buffer
Finally(s) == [s EXCEPT !.processing = FALSE]

flush_finally ==
    /\ task.pc = "finally"
    /\ streams' = [streams EXCEPT ![task.id] = Finally(@)]
    /\ task' = After(task.chunk, task.todo)
    /\ UNCHANGED <<order, now, result, conn>>

------------------------------------------------------------------------------
(* Signalling: main.py webrtc_offer, create_webrtc_answer *)

Modalities == {"audio", "video", "audio-video"}

Modes == {"send", "receive", "send-receive"}

\* what POST /webrtc/offer answers; uuid is the id uuid4() returns
OfferOutcome(modality, mode, uuid) ==
    IF modality \notin Modalities \/ mode \notin Modes
    THEN "failed: internal_server_error"
    ELSE IF Len(order) >= max_streams THEN "failed: concurrency_limit_reached"
    ELSE IF CreateOutcome(uuid) # "ok" THEN "failed: stream_creation_failed"
    ELSE "success"

\* uuid4() returns an id that is not in the registry
webrtc_offer(modality, mode, uuid) ==
    /\ task.pc = "idle"
    /\ uuid \notin DOMAIN streams
    /\ LET outcome == OfferOutcome(modality, mode, uuid) IN
       /\ result' = Result("webrtc_offer", uuid, outcome, {})
       /\ IF outcome = "success"
          THEN /\ streams' = Insert(streams, NewStream(uuid, modality, mode, now))
               /\ order' = Append(order, uuid)
          ELSE UNCHANGED <<streams, order>>
    /\ UNCHANGED <<now, task, conn>>

------------------------------------------------------------------------------
(* Signalling: create_webrtc_offer, create_webrtc_answer *)

\* the session description both functions synthesize, line by line; the id
\* is formatted into its o= line
Sdp(webrtc_id) ==
    << "v=0",
       "o=- " \o webrtc_id \o " 2 IN IP4 127.0.0.1",
       "s=-",
       "t=0 0",
       "a=group:BUNDLE audio",
       "a=extmap-allow-mixed",
       "a=msid-semantic: WMS",
       "m=audio 9 UDP/TLS/RTP/SAVPF 111",
       "c=IN IP4 0.0.0.0",
       "a=mid:audio",
       "a=sendrecv",
       "a=rtpmap:111 opus/48000/2",
       "a=fmtp:111 minptime=10;useinbandfec=1",
       "a=ssrc:1 cname:fastrtc-audio",
       "a=ssrc:1 msid:fastrtc-audio audio",
       "a=ssrc:1 mslabel:fastrtc-audio",
       "a=label:audio",
       "a=rtcp-mux" >>

\* the dict create_webrtc_offer returns
OfferDict(modality, mode, webrtc_id) ==
    [sdp |-> Sdp(webrtc_id), modality |-> modality, mode |-> mode, webrtc_id |-> webrtc_id]

\* create_webrtc_offer; uuid is the id uuid4() returns
create_webrtc_offer(modality, mode, uuid) ==
    /\ task.pc = "idle"
    /\ uuid \notin DOMAIN streams
    /\ result' = [ Result("create_webrtc_offer", uuid, "returned", {})
                   EXCEPT !.value = OfferDict(modality, mode, uuid) ]
    /\ UNCHANGED <<streams, order, now, task, conn>>

\* the dict create_webrtc_answer returns
AnswerDict(webrtc_id, modality, mode, t) ==
    [ py        |-> "dict",
      status    |-> "success",
      sdp       |-> Sdp(webrtc_id),
      webrtc_id |-> webrtc_id,
      meta      |-> [modality |-> modality, mode |-> mode, created_at |-> t] ]

\* a create_webrtc_answer that turns the error of create_stream into a result
AnswerFailureReturned(msg) ==
    [ py |-> "dict", status |-> "failed", sdp |-> <<>>, webrtc_id |-> "",
      meta |-> [error |-> "stream_creation_failed", message |-> msg] ]

\* create_webrtc_answer awaits create_stream outside any try: the ValueError
\* of create_stream leaves create_webrtc_answer as it was raised
AnswerFailure(msg) == [py |-> "ValueError", v |-> msg]

\* create_webrtc_answer(offer); uuid is the id uuid4() returns, which is not
\* an id generated before
create_webrtc_answer(offer, uuid) ==
    /\ task.pc = "idle"
    /\ uuid \notin DOMAIN streams
    /\ uuid # Get(offer, "webrtc_id", "")
    /\ LET modality == Get(offer, "modality", "audio")
           mode     == Get(offer, "mode", "send")
           outcome  == CreateOutcome(uuid)
       IN  IF outcome = "ok"
           THEN /\ streams' = Insert(streams, NewStream(uuid, modality, mode, now))
                /\ order' = Append(order, uuid)
                /\ result' = [ Result("create_webrtc_answer", uuid, "returned", {})
                               EXCEPT !.arg = offer,
                                      !.value = AnswerDict(uuid, modality, mode, now) ]
           ELSE /\ UNCHANGED <<streams, order>>
                /\ result' = [ Result("create_webrtc_answer", uuid, "raised", {})
                               EXCEPT !.arg = offer, !.value = AnswerFailure(outcome) ]
    /\ UNCHANGED <<now, task, conn>>

\* the offers create_webrtc_answer is called with: what create_webrtc_offer
\* returned, and the body of a POST /webrtc/offer (no webrtc_id), with or
\* without modality and mode
Offers ==
    {OfferDict(k[1], k[2], u) : k \in Kinds, u \in ValidIds}
      \cup {[sdp |-> <<"v=0">>, modality |-> k[1], mode |-> k[2]] : k \in Kinds}
      \cup {[sdp |-> <<"v=0">>]}

------------------------------------------------------------------------------
(* Protocol messages: handle_fastrtc_message *)

\* a parsed JSON object: a function from the keys it has to Python values
MessageKeys == {"type", "webrtc_id", "data"}

\* truth value of a str or None: "if webrtc_id:"
Truthy(v) == v # None /\ v # Str("")

\* formatting the type of the value in place of the value
FormatTypeName(v) == IF v = None THEN "NoneType" ELSE "str"

\* f"{message_type}"
Format(v) == IF v = None THEN "None" ELSE v.v

\* a dict the dispatch returns; a key it does not set is Absent
Dict(status, message, output) ==
    [py |-> "dict", status |-> status, message |-> message, output |-> output]

\* a get_status that reports an empty buffer and the flag clear
get_status_defaults(s) ==
    [ webrtc_id     |-> s.webrtc_id,
      modality      |-> s.modality,
      mode          |-> s.mode,
      is_active     |-> s.is_active,
      last_activity |-> s.last_activity,
      buffer_size   |-> 0,
      processing    |-> FALSE ]

\* FastRTCStream.get_status (created_at is not modelled)
get_status(s) ==
    [ webrtc_id     |-> s.webrtc_id,
      modality      |-> s.modality,
      mode          |-> s.mode,
      is_active     |-> s.is_active,
      last_activity |-> s.last_activity,
      buffer_size   |-> Len(s.audio_buffer),
      processing    |-> s.processing ]

\* the "output" of a fetch_output answer
Output(webrtc_id) ==
    [py |-> "dict", stream_id |-> webrtc_id, status |-> get_status(streams[webrtc_id])]

\* the object handle_fastrtc_message(message) returns; the send_input and
\* fetch_output branches have no return when webrtc_id is missing or empty, so
\* the function falls off its end and returns None
Dispatch(message) ==
    LET message_type == Get(message, "type", None)
        webrtc_id    == Get(message, "webrtc_id", None)
    IN  IF message_type = Str("send_input")
        THEN IF Truthy(webrtc_id)
             THEN IF webrtc_id.v \in DOMAIN streams
                  THEN Dict("success", Str("Input processed"), Absent)
                  ELSE Dict("error", Str("Stream not found"), Absent)
             ELSE None
        ELSE IF message_type = Str("fetch_output")
        THEN IF Truthy(webrtc_id)
             THEN IF webrtc_id.v \in DOMAIN streams
                  THEN Dict("success", Absent, Output(webrtc_id.v))
                  ELSE Dict("error", Str("Stream not found"), Absent)
             ELSE None
        ELSE IF message_type = Str("stopword")
        THEN Dict("success", Str("Stopword detected"), Absent)
        ELSE IF message_type = Str("error")
        THEN Dict("error", Get(message, "data", Str("Unknown error")), Absent)
        ELSE IF message_type = Str("warning")
        THEN Dict("warning", Get(message, "data", Str("Unknown warning")), Absent)
        ELSE IF message_type = Str("log")
        THEN Dict("success", Str("Log recorded"), Absent)
        ELSE Dict("error", Str("Unknown message type: " \o Format(message_type)), Absent)

\* a call of handle_fastrtc_message
handle_fastrtc_message(message) ==
    /\ task.pc = "idle"
    /\ result' = [ Result("handle_fastrtc_message",
                          Format(Get(message, "webrtc_id", None)), "returned", {})
                   EXCEPT !.arg = message, !.value = Dispatch(message) ]
    /\ UNCHANGED <<streams, order, now, task, conn>>

\* the type tags of the protocol, and one that is not
Tags == {"send_input", "fetch_output", "stopword", "error", "warning", "log"}

OtherTags == {"bogus"}

\* the messages clients send: every tag or none, with or without a webrtc_id
\* (registered or not, or empty), with or without data
Messages ==
    { m \in UNION { [K -> {Str(x) : x \in Tags \cup OtherTags \cup ValidIds \cup {"", "boom"}}] :
                       K \in SUBSET MessageKeys } :
        /\ "type" \in DOMAIN m => m["type"].v \in Tags \cup OtherTags
        /\ "webrtc_id" \in DOMAIN m => m["webrtc_id"].v \in ValidIds \cup {""}
        /\ "data" \in DOMAIN m => m["data"].v = "boom" }

------------------------------------------------------------------------------
(* Websocket endpoint: main.py websocket_audio_endpoint, ConnectionManager *)

\* if k in d: del d[k]
WithoutKey(d, k) == [x \in DOMAIN d \ {k} |-> d[x]]

\* websocket_audio_endpoint is entered for a websocket and awaits
\* websocket.accept() inside manager.connect
websocket_audio_endpoint(ws, client_id) ==
    /\ task.pc = "idle"
    /\ sockets[ws].state = "new"
    /\ sockets' = [sockets EXCEPT ![ws] = [state |-> "accepting", client_id |-> client_id]]
    /\ UNCHANGED <<streams, order, now, task, result,
                   active_connections, connection_metadata>>

\* ConnectionManager.connect once accept() has returned; the endpoint then
\* waits in websocket.receive()
connect(ws) ==
    /\ task.pc = "idle"
    /\ sockets[ws].state = "accepting"
    /\ LET client_id == sockets[ws].client_id IN
       /\ active_connections' =
            [x \in DOMAIN active_connections \cup {client_id} |->
               IF x = client_id THEN ws ELSE active_connections[x]]
       /\ connection_metadata' = connection_metadata \cup {client_id}
       /\ result' = Result("connect", client_id, "connected", {})
    /\ sockets' = [sockets EXCEPT ![ws].state = "open"]
    /\ UNCHANGED <<streams, order, now, task>>

\* a teardown that also stops every stream
disconnect_stops_streams(ws, why) ==
    /\ task.pc = "idle"
    /\ sockets[ws].state = "open"
    /\ LET client_id == sockets[ws].client_id IN
       /\ active_connections' = WithoutKey(active_connections, client_id)
       /\ connection_metadata' = connection_metadata \ {client_id}
       /\ result' = Result("disconnect", client_id, why, {})
    /\ sockets' = [sockets EXCEPT ![ws].state = "closed"]
    /\ streams' = [x \in DOMAIN streams |-> stop_streaming(streams[x])]
    /\ UNCHANGED <<order, now, task>>

\* the except branches of websocket_audio_endpoint: the loop of ws ends with
\* the exception why and manager.disconnect(client_id) runs
disconnect(ws, why) ==
    /\ task.pc = "idle"
    /\ sockets[ws].state = "open"
    /\ LET client_id == sockets[ws].client_id IN
       /\ active_connections' = WithoutKey(active_connections, client_id)
       /\ connection_metadata' = connection_metadata \ {client_id}
       /\ result' = Result("disconnect", client_id, why, {})
    /\ sockets' = [sockets EXCEPT ![ws].state = "closed"]
    /\ UNCHANGED <<streams, order, now, task>>

\* what ends a loop from outside: the peer closed, or receive/send failed
Teardowns == {"WebSocketDisconnect", "Exception"}

\* a text frame {"type": kind, "webrtc_id": webrtc_id} received on ws.  The
\* start_streaming and stop_streaming branches first write
\* connection_metadata[client_id], which raises KeyError when the key is gone;
\* the endpoint catches it and tears down.  The ping branch only sends "pong"
\* through send_personal_message (to nobody when the client is unregistered)
\* and the else branch only logs a warning: neither touches
\* connection_metadata, a stream or the registry.
handle_control_message(ws, kind, webrtc_id) ==
    /\ sockets[ws].state = "open"
    /\ IF kind = "start_streaming"
       THEN IF sockets[ws].client_id \in connection_metadata
            THEN handle_start_streaming(webrtc_id)
            ELSE disconnect(ws, "KeyError")
       ELSE IF kind = "stop_streaming"
       THEN IF sockets[ws].client_id \in connection_metadata
            THEN handle_stop_streaming(webrtc_id)
            ELSE disconnect(ws, "KeyError")
       ELSE IF kind = "ping"
       THEN /\ task.pc = "idle"
            /\ UNCHANGED vars
       ELSE /\ task.pc = "idle"
            /\ UNCHANGED vars

\* the message types of control frames: the three the code names and one it
\* does not
ControlKinds == {"start_streaming", "stop_streaming", "ping", "bogus"}

\* a binary frame received on ws
receive_bytes(ws, chunk) ==
    /\ sockets[ws].state = "open"
    /\ handle_audio_data(chunk)

------------------------------------------------------------------------------
(* Initial state: a manager that accepted n offers at time 0; none of those  *)
(* streams was started.  One client is connected.                             *)

\* no websocket has connected
NoConnection ==
    /\ active_connections = <<>>
    /\ connection_metadata = {}
    /\ sockets = [w \in Sockets |-> [state |-> "new", client_id |-> ""]]

\* websocket w1 connected as client c1 and waits for a frame
OneConnection ==
    /\ active_connections = [c \in {"c1"} |-> "w1"]
    /\ connection_metadata = {"c1"}
    /\ sockets = [w \in Sockets |->
                    IF w = "w1" THEN [state |-> "open", client_id |-> "c1"]
                                ELSE [state |-> "new", client_id |-> ""]]

FillerStreams(n) ==
    [x \in {Filler(i) : i \in 1..n} |-> NewStream(x, "audio", "send", 0)]

InitWith(n) ==
    /\ streams = FillerStreams(n)
    /\ order = [i \in 1..n |-> Filler(i)]
    /\ now = 0
    /\ task = Idle
    /\ result = Result("init", "", "ok", {})
    /\ OneConnection

\* every buffer holds fewer than cap chunks
HasRoom(cap) ==
    \A k \in DOMAIN streams : Len(streams[k].audio_buffer) < cap

(* Spec: the registry under all operations, two caller-named ids; the        *)
(* registry starts empty or with FreeSlots free slots.                       *)

Init == \E n \in {0, max_streams - FreeSlots} : InitWith(n)

Next ==
    \/ \E id \in IdInputs, k \in Kinds : create_stream(id, k[1], k[2])
    \/ \E id \in ValidIds \cup {"None"} : remove_fastrtc_stream(id)
    \/ cleanup_inactive_streams(max_inactive_minutes)
    \/ Tick
    \/ \E id \in ValidIds \cup {""} : handle_start_streaming(id)
    \/ \E id \in ValidIds \cup {""} : handle_stop_streaming(id)
    \/ \E id \in ValidIds, c \in Chunks : HasRoom(MaxQueued) /\ process_audio(id, c)
    \/ \E c \in Chunks : HasRoom(MaxQueued) /\ handle_audio_data(c)
    \/ audio_loop
    \/ \E k \in Kinds \cup BadKinds, u \in ValidIds : webrtc_offer(k[1], k[2], u)

Spec == Init /\ [][Next]_vars

(* SpecBuf, SpecFail: one stream's buffer up to and past the flush threshold *)

InitBuf == InitWith(0)

NextAudio(chunks, cap) ==
    \/ create_stream("a", "audio", "send")
    \/ remove_fastrtc_stream("a")
    \/ handle_start_streaming("a")
    \/ handle_stop_streaming("a")
    \/ \E id \in ValidIds, c \in chunks : HasRoom(cap) /\ process_audio(id, c)
    \/ \E c \in chunks : HasRoom(cap) /\ handle_audio_data(c)
    \/ flush_body
    \/ flush_finally

NextBuf == NextAudio(TwoChunks, MaxBuf)

SpecBuf == InitBuf /\ [][NextBuf]_vars

NextFail == NextAudio(BadChunks, MaxBuf)

SpecFail == InitBuf /\ [][NextFail]_vars

(* SpecMsg: protocol messages against a registry of up to two streams *)

NextMsg ==
    \/ \E id \in ValidIds : create_stream(id, "audio", "send")
    \/ \E id \in ValidIds : remove_fastrtc_stream(id)
    \/ \E id \in ValidIds : handle_start_streaming(id)
    \/ \E id \in ValidIds : handle_stop_streaming(id)
    \/ \E id \in ValidIds, c \in Chunks : HasRoom(MaxQueued) /\ process_audio(id, c)
    \/ \E m \in Messages : handle_fastrtc_message(m)

SpecMsg == InitBuf /\ [][NextMsg]_vars

(* SpecSig: offers and answers against a registry that starts empty or with *)
(* FreeSlots free slots                                                     *)

NextSig ==
    \/ \E k \in Kinds, u \in ValidIds : create_webrtc_offer(k[1], k[2], u)
    \/ \E offer \in Offers, u \in ValidIds : create_webrtc_answer(offer, u)
    \/ \E k \in Kinds \cup BadKinds, u \in ValidIds : webrtc_offer(k[1], k[2], u)
    \/ \E id \in ValidIds : remove_fastrtc_stream(id)
    \/ \E id \in ValidIds : handle_start_streaming(id)
    \/ \E id \in ValidIds : handle_stop_streaming(id)

SpecSig == Init /\ [][NextSig]_vars

(* SpecSweep: the idle sweep at every minute of one hour of wall-clock time. *)
(* The registry holds stream a, last active max_inactive_minutes + 1 minutes  *)
(* ago, and stream b, last active max_inactive_minutes - 1 minutes ago; each  *)
(* of them was started then, or created then and never started.  No stream   *)
(* is created in this specification: an id that is not registered is the id  *)
(* of a stream that was removed.  Time passes in steps of SweepStep minutes   *)
(* up to SweepEnd.  Nothing in the program calls the sweep: here any caller   *)
(* may call it, at any time and any number of times, or never.                *)

SweepTimes == 60..119

InitSweep ==
    \E t \in SweepTimes, started \in SUBSET ValidIds :
      LET aged(id, t0) == IF id \in started
                          THEN start_streaming(NewStream(id, "audio", "send", t0), t0)
                          ELSE NewStream(id, "audio", "send", t0)
      IN  /\ streams = [x \in ValidIds |->
                          IF x = "a" THEN aged("a", t - (max_inactive_minutes + 1))
                                     ELSE aged("b", t - (max_inactive_minutes - 1))]
          /\ order = <<"a", "b">>
          /\ now = t
          /\ task = Idle
          /\ result = Result("init", "", "ok", {})
          /\ OneConnection

SweepStep == 7

SweepEnd == 119

\* wall-clock time passes: a later datetime.utcnow() returns a later time
Pass(minutes) ==
    /\ task.pc = "idle"
    /\ now + minutes <= SweepEnd
    /\ now' = now + minutes
    /\ UNCHANGED <<streams, order, task, result, conn>>

NextSweep ==
    \/ cleanup_inactive_streams(max_inactive_minutes)
    \/ Pass(SweepStep)
    \/ \E id \in ValidIds : remove_fastrtc_stream(id)
    \/ \E id \in ValidIds : handle_start_streaming(id)
    \/ \E id \in ValidIds : handle_stop_streaming(id)
    \/ \E id \in ValidIds, c \in Chunks : HasRoom(MaxQueued) /\ process_audio(id, c)
    \/ \E c \in Chunks : HasRoom(MaxQueued) /\ handle_audio_data(c)
    \/ audio_loop

SpecSweep == InitSweep /\ [][NextSweep]_vars

\* What the event loop guarantees: a handle_audio_data that has entered its
\* for loop goes on to the next stream of its snapshot.  No caller of
\* cleanup_inactive_streams exists in the program, so no fairness of the
\* sweep is stated: a behaviour may contain no sweep at all.
SpecSweepFair ==
    SpecSweep /\ WF_vars(audio_loop)

(* SpecChan: websockets that connect, send frames and are torn down, with a *)
(* registry that starts empty                                               *)

InitChan ==
    /\ streams = FillerStreams(0)
    /\ order = <<>>
    /\ now = 0
    /\ task = Idle
    /\ result = Result("init", "", "ok", {})
    /\ NoConnection

NextChan ==
    \/ \E ws \in Sockets, c \in ClientIds : websocket_audio_endpoint(ws, c)
    \/ \E ws \in Sockets : connect(ws)
    \/ \E ws \in Sockets, why \in Teardowns : disconnect(ws, why)
    \/ \E ws \in Sockets, kind \in ControlKinds, id \in ValidIds :
         handle_control_message(ws, kind, id)
    \/ \E ws \in Sockets, c \in Chunks : HasRoom(MaxQueued) /\ receive_bytes(ws, c)
    \/ audio_loop
    \/ \E u \in ValidIds : webrtc_offer("audio", "send", u)
    \/ \E id \in ValidIds : remove_fastrtc_stream(id)

SpecChan == InitChan /\ [][NextChan]_vars

------------------------------------------------------------------------------
(* Claims *)

Registered == DOMAIN streams

\* C1: in every reachable state the registry holds at most max_streams streams,
\* every key maps to a stream whose own id is that key, and the keys in dict
\* order are the registry's keys, each once.
RegistryBounded ==
    /\ Cardinality(Registered) <= max_streams
    /\ \A k \in Registered : streams[k].webrtc_id = k
    /\ Len(order) = Cardinality(Registered)
    /\ Range(order) = Registered

\* C1 witness: a create filled the registry to max_streams
RegistryFull ==
    /\ Cardinality(Registered) = max_streams
    /\ result.op = "create_stream"
    /\ result.outcome = "ok"
    /\ result.id \in Registered

\* C2: a create with a valid id that is not registered succeeds and adds
\* exactly that stream while the registry holds fewer than max_streams streams;
\* when it holds max_streams it fails with CapacityExceeded and the registry is
\* left as it was.
CreateUpToCapacity ==
    [][ \A id \in ValidIds, k \in Kinds :
          (id \notin Registered /\ create_stream(id, k[1], k[2])) =>
            IF Cardinality(Registered) < max_streams
            THEN /\ result'.outcome = "ok"
                 /\ DOMAIN streams' = Registered \cup {id}
                 /\ Cardinality(DOMAIN streams') = Cardinality(Registered) + 1
                 /\ \A x \in Registered : streams'[x] = streams[x]
            ELSE /\ result'.outcome = CapacityExceeded
                 /\ streams' = streams
                 /\ order' = order ]_vars

\* C2 witness: a create with a fresh valid id was refused by a full registry
FreshCreateRefused ==
    /\ Cardinality(Registered) = max_streams
    /\ result.op = "create_stream"
    /\ result.id \in ValidIds \ Registered
    /\ result.outcome = CapacityExceeded

\* C3 (as claimed): a create with an id that is registered fails with
\* DuplicateId, whatever the size of the registry, and changes nothing.
DuplicateAlwaysReported ==
    [][ \A id \in ValidIds, k \in Kinds :
          (id \in Registered /\ create_stream(id, k[1], k[2])) =>
            /\ result'.outcome = DuplicateId(id)
            /\ streams' = streams
            /\ order' = order ]_vars

\* C4 (as claimed): the removal endpoint does not answer success for an id
\* that is not registered.
RemoveUnknownNotFound ==
    [][ \A id \in ValidIds \cup {"None"} :
          (id \notin Registered /\ remove_fastrtc_stream(id)) =>
            result'.outcome # "success" ]_vars

\* C5: whenever ids leave the registry (explicit removal or idle sweep), each
\* deleted stream object was let go of not active, a lookup of the id finds
\* nothing any more, no id is added, and every stream that stays is unchanged;
\* an explicit removal of a registered id deletes exactly that id.
RemovalStopsThenDeletes ==
    [][ LET deleted == Registered \ DOMAIN streams' IN
        /\ deleted # {} =>
             /\ \A id \in deleted :
                  /\ ~Lookup(id)'
                  /\ \E c \in result'.gone : c.webrtc_id = id
             /\ \A c \in result'.gone : c.webrtc_id \in deleted /\ ~c.is_active
             /\ DOMAIN streams' \subseteq Registered
             /\ \A x \in DOMAIN streams' : streams'[x] = streams[x]
        /\ \A id \in ValidIds :
             (id \in Registered /\ remove_fastrtc_stream(id)) => deleted = {id} ]_vars

\* C5 witness: an active stream was removed while another stream stayed active
ActiveStreamRemoved ==
    /\ result.op = "remove_fastrtc_stream"
    /\ \E c \in result.gone : c.webrtc_id = result.id /\ c.was_active /\ ~c.is_active
    /\ \E x \in Registered : streams[x].is_active

\* C7 (as claimed): process_audio appends the chunk to the buffer of every
\* registered stream, whatever its state, and sets its last_activity.
AppendsToEveryRegistered ==
    [][ \A id \in ValidIds, c \in Chunks :
          (id \in Registered /\ process_audio(id, c)) =>
            /\ streams'[id].audio_buffer = Append(streams[id].audio_buffer, c)
            /\ streams'[id].last_activity = now ]_vars

\* C7 (amended): process_audio appends the chunk to the end of the buffer of a
\* registered stream that is active and sets its last_activity to the time of
\* the call, leaving every other stream alone; for an id that is not
\* registered and for a registered stream that is not active it changes nothing.
AppendsToActiveOnly ==
    [][ \A id \in ValidIds, c \in Chunks :
          process_audio(id, c) =>
            IF id \in Registered /\ streams[id].is_active
            THEN /\ streams'[id].audio_buffer = Append(streams[id].audio_buffer, c)
                 /\ streams'[id].last_activity = now
                 /\ streams'[id].is_active
                 /\ DOMAIN streams' = Registered
                 /\ \A x \in Registered \ {id} : streams'[x] = streams[x]
            ELSE streams' = streams ]_vars

\* C7 witness: a chunk was appended behind another one, after the clock moved
ChunkAppendedToActive ==
    /\ result.op = "process_audio"
    /\ result.id \in Registered
    /\ streams[result.id].is_active
    /\ Len(streams[result.id].audio_buffer) = 2
    /\ streams[result.id].last_activity = now
    /\ now > 0
    /\ \E x \in Registered \ {result.id} : ~streams[x].is_active

\* C6 (as claimed, for a stream that is active): an append that leaves fewer
\* than flushThreshold chunks in the buffer triggers no flush and the buffer
\* holds the chunks appended; the append that brings the buffer to
\* flushThreshold triggers a flush, and when that append returns the buffer is
\* empty, whether or not the flush's processing step failed.
FlushAtThresholdEmptiesBuffer ==
    [][ /\ \A id \in ValidIds, c \in BadChunks :
             ( /\ id \in Registered
               /\ streams[id].is_active
               /\ Len(streams[id].audio_buffer) < flushThreshold
               /\ process_audio(id, c) ) =>
                 /\ streams'[id].audio_buffer = Append(streams[id].audio_buffer, c)
                 /\ IF Len(streams[id].audio_buffer) + 1 < flushThreshold
                    THEN task'.pc = "idle"
                    ELSE task'.pc = "flush" /\ task'.id = id
        /\ flush_finally => streams'[task.id].audio_buffer = <<>> ]_vars

\* C8: a step changes the buffer of a registered stream in one of two ways
\* only: an append puts one chunk behind the chunks already there, or a flush
\* takes all of them, in arrival order, into one payload and leaves the buffer
\* empty; so every buffered chunk stays in the buffer until it goes into
\* exactly one payload.
NoChunkLostOrDuplicated ==
    [][ \A id \in Registered \cap DOMAIN streams' :
          LET before == streams[id].audio_buffer
              after  == streams'[id].audio_buffer
          IN  \/ after = before
              \/ /\ \E c \in TwoChunks : after = Append(before, c)
                 /\ task.pc = "idle"
              \/ /\ after = <<>>
                 /\ task.pc = "flush" /\ task.id = id
                 /\ task'.payload = Join(before)
                 /\ Len(task'.payload) >= Len(before) ]_vars

\* C8 witness: a flush handed over a payload made of both kinds of chunk
FlushedPayload ==
    /\ task.pc = "finally"
    /\ streams[task.id].audio_buffer = <<>>
    /\ Len(task.payload) > flushThreshold
    /\ \E i \in 1..Len(task.payload) : task.payload[i] = 1
    /\ \E i \in 1..Len(task.payload) : task.payload[i] = 3

\* C9: a stream's processing flag is set exactly while a flush of that stream
\* executes, one call executes at a time, and a flush starts only on a stream
\* whose flag is clear.
OneFlushAtATime ==
    /\ [](\A id \in Registered :
            streams[id].processing <=> (task.pc \in {"flush", "finally"} /\ task.id = id))
    /\ [][ (task'.pc = "flush" /\ task.pc # "flush") =>
             /\ task'.id \in Registered
             /\ ~streams[task'.id].processing
             /\ streams'[task'.id].processing ]_vars

\* C9 witness: a flush is executing and the stream's flag is set
FlushInFlight ==
    /\ task.pc = "flush"
    /\ streams[task.id].processing
    /\ Len(streams[task.id].audio_buffer) = flushThreshold

\* C10 (as claimed): every flush, also one whose processing step fails, ends
\* with the buffer empty and the processing flag clear, the stream still
\* registered and active and the call returned to its caller.
FlushAlwaysClears ==
    [][ flush_finally =>
          /\ task.id \in DOMAIN streams'
          /\ streams'[task.id].audio_buffer = <<>>
          /\ ~streams'[task.id].processing
          /\ streams'[task.id].is_active
          /\ task'.pc = "idle" ]_vars

\* C11 (as claimed): for every message, whatever its type tag and whether or
\* not it carries a webrtc_id, the dispatch returns a dict whose status is
\* success, error or warning; it never returns None.
DispatchAlwaysStructured ==
    [][ \A m \in Messages :
          handle_fastrtc_message(m) =>
            /\ result'.value.py = "dict"
            /\ result'.value.status \in {"success", "error", "warning"} ]_vars

\* C12 (as claimed): when the registry is full, so that its create fails,
\* create_webrtc_answer returns a failure result and registers no stream.
AnswerReturnsTypedFailure ==
    [][ \A offer \in Offers, u \in ValidIds :
          (Cardinality(Registered) >= max_streams /\ create_webrtc_answer(offer, u)) =>
            /\ result'.outcome = "returned"
            /\ result'.value.py = "dict"
            /\ result'.value.status = "failed"
            /\ streams' = streams ]_vars

\* C12 (amended): when the registry is full, create_webrtc_answer raises the
\* ValueError of create_stream, carrying its message, and registers no stream;
\* the endpoint that calls it, webrtc_offer, answers a full registry with a
\* failure result and registers no stream.
AnswerRaisesRegistryError ==
    [][ /\ \A offer \in Offers, u \in ValidIds :
             (Cardinality(Registered) >= max_streams /\ create_webrtc_answer(offer, u)) =>
               /\ result'.outcome = "raised"
               /\ result'.value.py = "ValueError"
               /\ result'.value.v = CapacityExceeded
               /\ streams' = streams
               /\ order' = order
        /\ \A k \in Kinds \cup BadKinds, u \in ValidIds :
             (Cardinality(Registered) >= max_streams /\ webrtc_offer(k[1], k[2], u)) =>
               /\ result'.outcome \in {"failed: concurrency_limit_reached",
                                       "failed: internal_server_error"}
               /\ streams' = streams
               /\ order' = order ]_vars

\* C12 witness: create_webrtc_answer raised on a full registry
AnswerRaisedAtCapacity ==
    /\ result.op = "create_webrtc_answer"
    /\ result.outcome = "raised"
    /\ result.id \notin Registered
    /\ Cardinality(Registered) = max_streams

\* C13: create_webrtc_offer leaves the registry as it is; when the registry is
\* below capacity, create_webrtc_answer called next with the offer it returned
\* registers exactly one stream, not active, with an empty buffer, under the
\* id the answer returns and carries in the o= line of its session
\* description, with the modality and mode of the offer.
OfferThenAnswerRegisters ==
    [][ /\ \A k \in Kinds, u \in ValidIds :
             create_webrtc_offer(k[1], k[2], u) => (streams' = streams /\ order' = order)
        /\ \A u \in ValidIds :
             ( /\ result.op = "create_webrtc_offer"
               /\ Cardinality(Registered) < max_streams
               /\ create_webrtc_answer(result.value, u) ) =>
                 /\ result'.outcome = "returned"
                 /\ result'.value.status = "success"
                 /\ result'.value.webrtc_id \notin Registered
                 /\ DOMAIN streams' = Registered \cup {result'.value.webrtc_id}
                 /\ \A x \in Registered : streams'[x] = streams[x]
                 /\ result'.value.sdp[2] =
                      "o=- " \o result'.value.webrtc_id \o " 2 IN IP4 127.0.0.1"
                 /\ LET s == streams'[result'.value.webrtc_id] IN
                      /\ s.webrtc_id = result'.value.webrtc_id
                      /\ ~s.is_active
                      /\ s.audio_buffer = <<>>
                      /\ ~s.processing
                      /\ s.modality = result.value.modality
                      /\ s.mode = result.value.mode ]_vars

\* C13 witness: an answer to a video offer registered a stream under an id
\* that is not the offer's
AnswerRegisteredOffer ==
    /\ result.op = "create_webrtc_answer"
    /\ result.outcome = "returned"
    /\ "webrtc_id" \in DOMAIN result.arg
    /\ result.arg.webrtc_id # result.id
    /\ result.id \in Registered
    /\ streams[result.id].modality = "video"
    /\ streams[result.id].mode = "receive"

\* C14 (as claimed): at every minute of the hour a sweep with the threshold
\* of max_inactive_minutes returns without error, removes every stream last
\* active max_inactive_minutes + 1 minutes ago and keeps every stream last
\* active max_inactive_minutes - 1 minutes ago.
SweepAtEveryMinute ==
    [][ cleanup_inactive_streams(max_inactive_minutes) =>
          /\ result'.outcome = "returned"
          /\ \A id \in Registered :
               /\ streams[id].last_activity = now - (max_inactive_minutes + 1)
                    => id \notin DOMAIN streams'
               /\ streams[id].last_activity = now - (max_inactive_minutes - 1)
                    => id \in DOMAIN streams' ]_vars

\* C16 (as claimed): if the sweep is called again and again (the claim's
\* fairness of the periodic sweep), every registered stream that was last
\* active more than max_inactive_minutes ago is eventually out of the
\* registry, unless it becomes active again.
IdleEventuallyRemoved ==
    []<><<cleanup_inactive_streams(max_inactive_minutes)>>_vars =>
      \A id \in ValidIds :
        (id \in Registered /\ streams[id].last_activity < now - max_inactive_minutes)
          ~> (id \notin Registered \/ streams[id].last_activity >= now - max_inactive_minutes)

\* C15: once a stream is out of the registry (in SpecSweep: it was removed),
\* no step brings its id back or makes a lookup of it succeed, and a start, a
\* stop or an append that names it changes no stream.
RemovedIsTerminal ==
    [][ \A id \in ValidIds :
          id \notin Registered =>
            /\ id \notin DOMAIN streams'
            /\ ~Lookup(id)'
            /\ ( \/ handle_start_streaming(id)
                 \/ handle_stop_streaming(id)
                 \/ \E c \in Chunks : process_audio(id, c) )
                 => (streams' = streams /\ order' = order) ]_vars

\* C15 witness: a start named a stream that was removed, while the other
\* stream is registered and active
RemovedStreamStarted ==
    /\ result.op = "start_streaming"
    /\ result.id \in ValidIds \ Registered
    /\ \E x \in Registered : streams[x].is_active

\* C17 (as claimed): a binary chunk received on a channel is appended to at
\* most one stream: the step that takes the chunk changes at most one stream
\* and no later step of handle_audio_data hands the chunk to another one.
ChunkReachesOneStream ==
    [][ /\ \A c \in Chunks :
             handle_audio_data(c) =>
               Cardinality({x \in Registered : streams'[x] # streams[x]}) <= 1
        /\ audio_loop => streams' = streams ]_vars

\* C18 (as claimed): a start or stop request that names an id that is not
\* registered is not acknowledged as started or stopped, and changes no stream.
StartStopUnknownNotFound ==
    [][ \A id \in ValidIds :
          (id \notin Registered /\ (handle_start_streaming(id) \/ handle_stop_streaming(id))) =>
            /\ result'.outcome \notin {"streaming_started", "streaming_stopped"}
            /\ streams' = streams
            /\ order' = order ]_vars

\* C19: for a registered stream, start leaves it active and stop leaves it not
\* active, both are acknowledged, and neither changes the stream's buffer,
\* processing flag, modality or mode, the registry's keys or any other
\* stream; a start of an active stream changes only its last_activity and a
\* stop of a stream that is not active changes nothing.
StartStopIdempotent ==
    [][ \A id \in ValidIds :
          id \in Registered =>
            /\ handle_start_streaming(id) =>
                 /\ result'.outcome = "streaming_started"
                 /\ streams'[id].is_active
                 /\ streams[id].is_active =>
                      streams' = [streams EXCEPT ![id].last_activity = now]
            /\ handle_stop_streaming(id) =>
                 /\ result'.outcome = "streaming_stopped"
                 /\ ~streams'[id].is_active
                 /\ ~streams[id].is_active => streams' = streams
            /\ (handle_start_streaming(id) \/ handle_stop_streaming(id)) =>
                 /\ streams'[id].audio_buffer = streams[id].audio_buffer
                 /\ streams'[id].processing = streams[id].processing
                 /\ streams'[id].modality = streams[id].modality
                 /\ streams'[id].mode = streams[id].mode
                 /\ streams'[id].webrtc_id = id
                 /\ DOMAIN streams' = Registered
                 /\ order' = order
                 /\ \A x \in Registered \ {id} : streams'[x] = streams[x] ]_vars

\* C19 witness: a start acted on a stream that holds buffered chunks, at a
\* later time than they were buffered at, while another stream is not active
StartedWithBufferKept ==
    /\ result.op = "start_streaming"
    /\ result.id \in Registered
    /\ streams[result.id].is_active
    /\ Len(streams[result.id].audio_buffer) = 2
    /\ streams[result.id].last_activity = now
    /\ now > 0
    /\ \E x \in Registered \ {result.id} : ~streams[x].is_active

\* C20: the teardown of a websocket's loop, by a disconnect of the peer, by an
\* error in the loop or by the KeyError of a handler, leaves every stream, its
\* buffer and last_activity, and the registry's keys as they were.
TeardownKeepsRegistry ==
    [][ \A ws \in Sockets, why \in Teardowns \cup {"KeyError"} :
          disconnect(ws, why) => (streams' = streams /\ order' = order) ]_vars

\* C20 witness: the only websocket that ever connected was torn down while a
\* stream that was started through it is active and holds a chunk
ChannelOfActiveStreamClosed ==
    /\ result.op = "disconnect"
    /\ \E ws \in Sockets :
         /\ sockets[ws].state = "closed"
         /\ \A w \in Sockets \ {ws} : sockets[w].state = "new"
    /\ \E x \in Registered : streams[x].is_active /\ Len(streams[x].audio_buffer) > 0

\* C21: for every message (the argument the step records) whose type tag is not one of the six tags of the
\* protocol, or is missing, the dispatch returns a dict with status error and
\* the message "Unknown message type: " followed by the tag (None for a
\* missing tag), and changes no stream.
UnknownTagIsError ==
    [][ LET m == result'.arg IN
          ( /\ result'.op = "handle_fastrtc_message"
            /\ ("type" \notin DOMAIN m \/ m["type"].v \notin Tags)
            /\ handle_fastrtc_message(m) ) =>
              /\ result'.outcome = "returned"
              /\ result'.value.py = "dict"
              /\ result'.value.status = "error"
              /\ result'.value.message =
                   Str("Unknown message type: " \o
                         (IF "type" \in DOMAIN m THEN m["type"].v ELSE "None"))
              /\ streams' = streams
              /\ order' = order ]_vars

\* C21 witness: a message with the tag bogus that names a registered stream
\* was answered
BogusTagAnswered ==
    /\ result.op = "handle_fastrtc_message"
    /\ result.id \in Registered
    /\ result.value.py = "dict"
    /\ result.value.message = Str("Unknown message type: bogus")

\* C22: a send_input or fetch_output message that carries a non-empty
\* webrtc_id is answered with status error and "Stream not found" when the id
\* is not registered and with status success when it is; the answer to
\* fetch_output carries the id and the stream's is_active, buffer length and
\* processing flag as they are; the call changes no stream.
LookupAnswersFromRegistry ==
    [][ LET m == result'.arg IN
          ( /\ result'.op = "handle_fastrtc_message"
            /\ "type" \in DOMAIN m
            /\ m["type"].v \in {"send_input", "fetch_output"}
            /\ "webrtc_id" \in DOMAIN m
            /\ m["webrtc_id"].v # ""
            /\ handle_fastrtc_message(m) ) =>
              LET id == m["webrtc_id"].v
                  r  == result'.value
              IN  /\ streams' = streams
                  /\ order' = order
                  /\ r.py = "dict"
                  /\ IF id \notin Registered
                     THEN r.status = "error" /\ r.message = Str("Stream not found")
                     ELSE /\ r.status = "success"
                          /\ m["type"].v = "fetch_output" =>
                               /\ r.output.stream_id = id
                               /\ r.output.status.webrtc_id = id
                               /\ r.output.status.is_active = streams[id].is_active
                               /\ r.output.status.buffer_size = Len(streams[id].audio_buffer)
                               /\ r.output.status.processing = streams[id].processing ]_vars

\* C22 witness: fetch_output was answered for an active stream that holds
\* two chunks
SnapshotOfBufferedStream ==
    /\ result.op = "handle_fastrtc_message"
    /\ "type" \in DOMAIN result.arg
    /\ result.arg["type"] = Str("fetch_output")
    /\ result.id \in Registered
    /\ result.value.py = "dict"
    /\ result.value.status = "success"
    /\ result.value.output.status.is_active
    /\ result.value.output.status.buffer_size = 2

\* C23 (as claimed): whenever no call is executing, every registered stream
\* has its processing flag clear and fewer than flushThreshold chunks in its
\* buffer.
ObservableBufferBelowThreshold ==
    task.pc = "idle" =>
      \A id \in Registered :
        /\ ~streams[id].processing
        /\ Len(streams[id].audio_buffer) < flushThreshold

\* C24: a stop of a registered stream leaves its buffer as it was and starts
\* no flush; a removal deletes the stream and starts no flush; a flush starts
\* only in a step that appends a chunk to an active stream, and the payload
\* it joins is the buffer of that registered stream.
StopAndRemoveNeverFlush ==
    [][ /\ \A id \in ValidIds :
             (id \in Registered /\ handle_stop_streaming(id)) =>
               /\ streams'[id].audio_buffer = streams[id].audio_buffer
               /\ ~streams'[id].processing
               /\ task' = task
               /\ task'.pc = "idle"
        /\ \A id \in ValidIds :
             (id \in Registered /\ remove_fastrtc_stream(id)) =>
               /\ id \notin DOMAIN streams'
               /\ task' = task
               /\ task'.pc = "idle"
        /\ (task'.pc = "flush" /\ task.pc # "flush") =>
               /\ task'.id \in Registered
               /\ streams[task'.id].is_active
               /\ Len(streams'[task'.id].audio_buffer) =
                    Len(streams[task'.id].audio_buffer) + 1
        /\ (task'.pc = "finally" /\ task.pc = "flush") =>
               /\ task.id \in Registered
               /\ task'.payload = Join(streams[task.id].audio_buffer) ]_vars

\* C24 witness: a stream was stopped one chunk short of the threshold and
\* holds all its chunks
StoppedWithBufferKept ==
    /\ result.op = "stop_streaming"
    /\ result.id \in Registered
    /\ ~streams[result.id].is_active
    /\ Len(streams[result.id].audio_buffer) = flushThreshold - 1
    /\ task.pc = "idle"

\* C25 (as claimed): every websocket whose connect has completed and whose
\* loop is running has its client_id in active_connections and in
\* connection_metadata, and the two maps have the same keys.
ConnectedStaysRegistered ==
    /\ \A ws \in Sockets :
         sockets[ws].state = "open" =>
           /\ sockets[ws].client_id \in DOMAIN active_connections
           /\ sockets[ws].client_id \in connection_metadata
    /\ DOMAIN active_connections = connection_metadata

====
